---- MODULE Spec2Model ----
(***************************************************************************)
(* Period-selection state machine of the FOS dashboard front end:          *)
(* the week/month dropdown, the granularity toggle, the reversed timeline  *)
(* slider, the period-list load and the page reloads they trigger.         *)
(* Arrays are 1-based here; the slider keeps the 0-based index of the      *)
(* code, so weeksData[idx] of the code is weeksData[idx + 1].              *)
(***************************************************************************)
EXTENDS Integers, Sequences, FiniteSets, TLC

\* ---------------------------------------------------------------- bounds
MaxWeeks == 3
MaxMonthLen == 2
MaxInFlight == 2
MaxCalls == 2
MaxSent == 2
MaxAdds == 6

\* ------------------------------------------------------------ JS values
\* null and NaN, kept apart from every week id (week ids are positive).
Null == -2
NaN == -1

Digits == <<"0", "1", "2", "3", "4", "5", "6", "7", "8", "9">>
IsDigit(c) == \E d \in 1..10 : Digits[d] = c
DigitVal(c) == (CHOOSE d \in 1..10 : Digits[d] = c) - 1

\* String(n) of a non-negative integer, as a sequence of characters.
RECURSIVE ToStr(_)
ToStr(n) == IF n < 10 THEN <<Digits[n + 1]>>
            ELSE ToStr(n \div 10) \o <<Digits[(n % 10) + 1]>>

\* parseInt(s): the value of the leading run of digits, NaN when there is none.
RECURSIVE ParseDigits(_, _, _)
ParseDigits(s, i, acc) ==
  IF i > Len(s) \/ ~IsDigit(s[i]) THEN acc
  ELSE ParseDigits(s, i + 1, acc * 10 + DigitVal(s[i]))
ParseInt(s) == IF Len(s) = 0 \/ ~IsDigit(s[1]) THEN NaN ELSE ParseDigits(s, 1, 0)

\* Faulty variant: the ids joined with ';', which split(',') does not undo.
RECURSIVE Join_Semicolon(_)
Join_Semicolon(a) == IF Len(a) = 0 THEN <<>>
                     ELSE IF Len(a) = 1 THEN ToStr(a[1])
                     ELSE ToStr(a[1]) \o <<";">> \o Join_Semicolon(Tail(a))

\* Array.prototype.join(',') of an array of week ids.
RECURSIVE Join(_)
Join(a) == IF Len(a) = 0 THEN <<>>
           ELSE IF Len(a) = 1 THEN ToStr(a[1])
           ELSE ToStr(a[1]) \o <<",">> \o Join(Tail(a))

\* String.prototype.split(','): the pieces between the commas ("" gives [""]).
RECURSIVE SplitFrom(_, _, _)
SplitFrom(s, i, piece) ==
  IF i > Len(s) THEN <<piece>>
  ELSE IF s[i] = "," THEN <<piece>> \o SplitFrom(s, i + 1, <<>>)
  ELSE SplitFrom(s, i + 1, Append(piece, s[i]))
Split(s) == SplitFrom(s, 1, <<>>)

\* --------------------------------------------------- the external data
\* What GET /api/weeks and GET /api/weeks/months answer: n periods, most
\* recent first, and the months that group them g at a time (no months when
\* there are no periods).
LabelOf(id) == <<"W">> \o ToStr(id + 40)
NoLabel == <<"-", "-">>
Weeks(n) == [i \in 1..n |-> [week_id |-> n + 9 - i, label |-> LabelOf(n + 9 - i)]]
MonthCount(n, g) == (n + g - 1) \div g
Months(n, g) ==
  [m \in 1..MonthCount(n, g) |->
     [label |-> <<"M">> \o ToStr(m),
      week_ids |-> [j \in 1..(IF m * g <= n THEN g ELSE n - (m - 1) * g) |->
                      Weeks(n)[(m - 1) * g + j].week_id]]]

Pages == {"/", "/revenue", "/margin", "/labor"}

VARIABLES
  page,                \* window.location.pathname
  apiWeeks, apiMonths, \* the lists the data source holds
  currentWeekId, weeksData, periodType, monthsData, currentMonthWeekIds,
  selOptions, selIndex,  \* #week-selector: its options, the selected one (0: none)
  changeListener,        \* handlePeriodChange is installed on #week-selector
  slider, sliderListener,\* #timeline-slider: min, max, value; handleSliderChange installed
  labels,                \* #timeline-start, #timeline-end, #timeline-current
  loadPc, fetchWeeks, fetchMonths, \* the page init and its two list fetches
  currentJobFilter,      \* the labor page's job filter
  reloads,               \* page loaders in flight, each with its requests outstanding
  spinner,               \* #loading-spinner is visible (and the content hidden)
  weekLabel,             \* #week-label
  shown,                 \* the week whose data the cards, charts and tables show
  initAlerts,            \* alerts raised by the page init's catch
  initLoaderRan,         \* the page init went on to its page loader
  alert,                 \* the message the last step alerted ("" when none)
  lastOp,                \* the handler that ran last, its input, the one before it
  storage,               \* localStorage: the keys present and their strings
  apiCalls,              \* requests of api.login / api.get / api.post in flight
  apiLast,               \* the api step that ran last and how it ended
  selectedFile,          \* upload page: <<>> for null, else <<the file's name>>
  uploadBtnDisabled,     \* #upload-btn.disabled
  fileInfo,              \* #file-info: shown or not, the text of #file-name
  progressShown,         \* #upload-progress without d-none
  resultBox,             \* #upload-result: shown or not, what showResult wrote
  uploads,               \* uploadFile calls waiting at their fetch
  recent,                \* the li of #recent-uploads, first child first
  sent,                  \* uploads started so far
  added,                 \* every entry addToRecentUploads made, newest first
  upLast                 \* the upload handler that ran last, its file, how it ended

vars == <<page, apiWeeks, apiMonths, currentWeekId, weeksData, periodType,
          monthsData, currentMonthWeekIds, selOptions, selIndex, changeListener,
          slider, sliderListener, labels, loadPc, fetchWeeks, fetchMonths,
          currentJobFilter, reloads, spinner, weekLabel, shown, initAlerts,
          initLoaderRan, alert, lastOp, storage, apiCalls, apiLast, selectedFile,
          uploadBtnDisabled, fileInfo, progressShown, resultBox, uploads, recent,
          sent, added, upLast>>

\* The upload page.
uploadVars == <<selectedFile, uploadBtnDisabled, fileInfo, progressShown, resultBox,
                uploads, recent, sent, added, upLast>>

\* The session: what api.login, api.logout, api.get and api.post keep.
authVars == <<storage, apiCalls, apiLast>>

\* Everything of the dashboard pages but the path.
dashVars == <<apiWeeks, apiMonths, currentWeekId, weeksData, periodType,
              monthsData, currentMonthWeekIds, selOptions, selIndex, changeListener,
              slider, sliderListener, labels, loadPc, fetchWeeks, fetchMonths,
              currentJobFilter, reloads, spinner, weekLabel, shown, initAlerts,
              initLoaderRan, alert, lastOp>>

domVars == <<selOptions, selIndex, changeListener, slider, sliderListener, labels>>
\* What no handler of the dashboard pages writes: the path, the lists of the
\* data source, the session (a page whose request is answered 401 is left
\* for /login; the dashboard is followed while its page lives) and the
\* upload page.
dataVars == <<page, apiWeeks, apiMonths, authVars, uploadVars>>
loadVars == <<loadPc, fetchWeeks, fetchMonths, initAlerts, initLoaderRan>>

\* ------------------------------------------------------ localStorage
TOKEN_KEY == "fos_token"
USER_KEY == "fos_user"

\* The token the server issues, the user info GET /api/auth/me answers.
Jwt == "jwt"
UserInfo == [name |-> "Ann", email |-> "ann@example.com"]

\* JSON.stringify and JSON.parse of a user info object; the text is kept as
\* the sequence of its pieces.
JSONStringify(u) == <<"{", u.name, ",", u.email, "}">>
JSONParse(text) == [name |-> text[2], email |-> text[4]]

SetItem(st, key, value) ==
  [k \in DOMAIN st \cup {key} |-> IF k = key THEN value ELSE st[k]]
RemoveItem(st, key) == [k \in DOMAIN st \ {key} |-> st[k]]
NoItems == [k \in {} |-> ""]

\* A signed-in session, as api.login leaves it.
SignedIn == SetItem(SetItem(NoItems, TOKEN_KEY, Jwt), USER_KEY, JSONStringify(UserInfo))

AuthIdle ==
  /\ storage = SignedIn
  /\ apiCalls = <<>>
  /\ apiLast = [op |-> "none", status |-> 0, bearer |-> "", error |-> ""]

\* The module state of a dashboard page as its script starts.
\* --------------------------------------------------- the upload page
\* The list of recent uploads as the page is served: one li, the placeholder.
NoRecent == <<"N", "o", " ", "r", "e", "c", "e", "n", "t">>
Placeholder ==
  [text |-> NoRecent \o <<" ", "u", "p", "l", "o", "a", "d", "s">>,
   badge |-> <<>>, icon |-> "none"]

\* The upload page as served: the button disabled, file info, progress and
\* result hidden, the list holding the placeholder.
UploadDomIdle ==
  /\ uploadBtnDisabled = TRUE
  /\ fileInfo = [shown |-> FALSE, name |-> <<>>]
  /\ progressShown = FALSE
  /\ resultBox = [shown |-> FALSE, success |-> FALSE, message |-> ""]
  /\ recent = <<Placeholder>>

UploadIdle ==
  /\ selectedFile = <<>>
  /\ UploadDomIdle
  /\ uploads = <<>>
  /\ sent = 0
  /\ added = <<>>
  /\ upLast = [op |-> "none", file |-> <<>>, outcome |-> ""]

DashboardIdle ==
  /\ currentWeekId = Null
  /\ weeksData = <<>>
  /\ periodType = "weekly"
  /\ monthsData = <<>>
  /\ currentMonthWeekIds = <<>>
  /\ selOptions = <<>>
  /\ selIndex = 0
  /\ changeListener = FALSE
  /\ slider = [min |-> 0, max |-> 0, value |-> 0]
  /\ sliderListener = FALSE
  /\ labels = [start |-> NoLabel, end |-> NoLabel, current |-> NoLabel]
  /\ loadPc = "notStarted"
  /\ fetchWeeks = "idle"
  /\ fetchMonths = "idle"
  /\ currentJobFilter = "all"
  /\ reloads = <<>>
  /\ spinner = FALSE
  /\ weekLabel = NoLabel
  /\ shown = Null
  /\ initAlerts = 0
  /\ initLoaderRan = FALSE
  /\ alert = ""
  /\ lastOp = [op |-> "none", arg |-> 0, prev |-> "none"]

Init ==
  /\ page \in Pages
  /\ \E n \in 0..MaxWeeks, g \in 1..MaxMonthLen :
       /\ apiWeeks = Weeks(n)
       /\ apiMonths = Months(n, g)
  /\ DashboardIdle
  /\ AuthIdle
  /\ UploadIdle


\* --------------------------------------------------------- the dropdown
\* The value a <select> reports: that of its selected option, "" with none.
SelectValue(opts, idx) == IF idx = 0 THEN <<>> ELSE opts[idx].value

\* Assigning selector.value selects the first option with that value, or none.
IndexOfValue(opts, v) ==
  IF \E i \in 1..Len(opts) : opts[i].value = v
  THEN CHOOSE i \in 1..Len(opts) :
         /\ opts[i].value = v
         /\ \A j \in 1..(i - 1) : opts[j].value # v
  ELSE 0

WeekOptions(wd) ==
  [i \in 1..Len(wd) |-> [value |-> ToStr(wd[i].week_id), text |-> wd[i].label]]
MonthOptions(md) ==
  [i \in 1..Len(md) |-> [value |-> Join(md[i].week_ids), text |-> md[i].label]]

\* The option built at index 0 is the selected one.
DefaultSelected(opts) == IF Len(opts) > 0 THEN 1 ELSE 0

\* Faulty variant: the last week of a month taken as its primary week.
PrimaryWeek_Last(week_ids) == week_ids[Len(week_ids)]

\* The first week of a month is its primary week.
PrimaryWeek(week_ids) == week_ids[1]

\* Faulty variant: the week list repopulated without resetting the group of week ids.
populateWeekSelector_KeepGroup(wd) ==
  /\ selOptions' = WeekOptions(wd)
  /\ selIndex' = DefaultSelected(WeekOptions(wd))
  /\ IF Len(wd) > 0
     THEN currentWeekId' = wd[1].week_id
     ELSE UNCHANGED currentWeekId
  /\ UNCHANGED currentMonthWeekIds

populateWeekSelector(wd) ==
  /\ selOptions' = WeekOptions(wd)
  /\ selIndex' = DefaultSelected(WeekOptions(wd))
  /\ IF Len(wd) > 0
     THEN /\ currentWeekId' = wd[1].week_id
          /\ currentMonthWeekIds' = <<wd[1].week_id>>
     ELSE UNCHANGED <<currentWeekId, currentMonthWeekIds>>

populateMonthSelector(md) ==
  /\ selOptions' = MonthOptions(md)
  /\ selIndex' = DefaultSelected(MonthOptions(md))
  /\ IF Len(md) > 0
     THEN /\ currentMonthWeekIds' = md[1].week_ids
          /\ currentWeekId' = PrimaryWeek(md[1].week_ids)
     ELSE UNCHANGED <<currentWeekId, currentMonthWeekIds>>

\* ------------------------------------------------------- page reloads
\* Faulty variant: the labor path is not told apart and gets the overview loader.
LoaderFor_NoLabor(path) ==
  IF path = "/revenue" THEN "loadRevenueData"
  ELSE IF path = "/margin" THEN "loadMarginData"
  ELSE "loadDashboardData"

\* reloadCurrentPage(): the page loader of a path.
LoaderFor(path) ==
  IF path = "/revenue" THEN "loadRevenueData"
  ELSE IF path = "/margin" THEN "loadMarginData"
  ELSE IF path = "/labor" THEN "loadLaborData"
  ELSE "loadDashboardData"

\* The requests a page loader sends in one Promise.all (or one await).
FetchCount(loader) ==
  IF loader = "loadDashboardData" THEN 4
  ELSE IF loader = "loadMarginData" THEN 2
  ELSE 1

\* #week-label as a page loader leaves it before its requests go out: the
\* overview in monthly mode copies the selected option's text, every other
\* case writes the label of the week found for cur, or nothing.
WeekLabel(loader, pt, md, opts, idx, wd, cur, old) ==
  IF loader = "loadDashboardData" /\ pt = "monthly" /\ Len(md) > 0
  THEN IF idx > 0 THEN opts[idx].text ELSE <<"Month --">>
  ELSE IF \E i \in 1..Len(wd) : wd[i].week_id = cur
       THEN <<"Week ">> \o wd[CHOOSE i \in 1..Len(wd) : wd[i].week_id = cur].label
       ELSE old

\* The page loaders in flight form an unordered collection (none waits for
\* another, responses come in any order); the sequence lists them by rank so
\* that one collection has one representation.
StatusRank(st) ==
  IF st = "all" THEN 1 ELSE IF st = "wip" THEN 2 ELSE IF st = "completed" THEN 3 ELSE 0

Rank(r) == ((r.week_id + 2) * 4 + StatusRank(r.status)) * 5 + r.pending

Insert(s, r) ==
  LET k == Cardinality({i \in 1..Len(s) : Rank(s[i]) <= Rank(r)})
  IN SubSeq(s, 1, k) \o <<r>> \o SubSeq(s, k + 1, Len(s))

\* Faulty variant: starting a page loader drops the ones still in flight.
StartLoader_CancelsEarlier(loader, wk) ==
  /\ reloads' = <<[loader |-> loader, week_id |-> wk,
                   status |-> IF loader = "loadLaborData"
                              THEN currentJobFilter' ELSE "none",
                   pending |-> FetchCount(loader)]>>
  /\ spinner' = TRUE
  /\ weekLabel' = WeekLabel(loader, periodType', monthsData', selOptions', selIndex',
                            weeksData', wk, weekLabel)

\* A page loader up to its first await: the spinner is shown, #week-label is
\* written and the requests go out with the week id (and, on the labor page,
\* the job filter) current at that moment.
StartLoader(loader, wk) ==
  /\ reloads' = Insert(reloads, [loader |-> loader, week_id |-> wk,
                                  status |-> IF loader = "loadLaborData"
                                             THEN currentJobFilter' ELSE "none",
                                  pending |-> FetchCount(loader)])
  /\ spinner' = TRUE
  /\ weekLabel' = WeekLabel(loader, periodType', monthsData', selOptions', selIndex',
                            weeksData', wk, weekLabel)

\* reloadCurrentPage(): the loader of the current path.
StartReload(wk) == StartLoader(LoaderFor(page), wk)

\* What each page loader's catch alerts.
LoaderError(loader) ==
  IF loader = "loadRevenueData" THEN "Failed to load revenue data"
  ELSE IF loader = "loadMarginData" THEN "Failed to load margin data"
  ELSE IF loader = "loadLaborData" THEN "Failed to load labor data"
  ELSE "Failed to load data"

\* What each page init's catch alerts.
InitError(path) ==
  IF path = "/revenue" THEN "Failed to load revenue data"
  ELSE IF path = "/margin" THEN "Failed to load margin data"
  ELSE IF path = "/labor" THEN "Failed to load labor data"
  ELSE "Failed to load dashboard data"

RemoveAt(s, j) == [i \in 1..(Len(s) - 1) |-> IF i < j THEN s[i] ELSE s[i + 1]]

\* Faulty variant: the catch alerts but leaves the spinner as it is.
reloadCompletes_CatchKeepsSpinner(j, ok) ==
  LET r == reloads[j] IN
  /\ shown' = IF ok THEN r.week_id ELSE shown
  /\ reloads' = RemoveAt(reloads, j)
  /\ spinner' = IF ok THEN FALSE ELSE spinner
  /\ alert' = IF ok THEN "" ELSE LoaderError(r.loader)
  /\ lastOp' = [op |-> IF ok THEN "reloadRenders" ELSE "reloadFails", arg |-> 0,
                prev |-> lastOp.op]

\* The end of page loader j.  With ok, every request has resolved: the cards,
\* charts and tables are written from the responses, then showLoading(false).
\* Otherwise the await has rejected: the catch alerts once, then
\* showLoading(false); nothing is rendered.
reloadCompletes(j, ok) ==
  LET r == reloads[j] IN
  /\ shown' = IF ok THEN r.week_id ELSE shown
  /\ reloads' = RemoveAt(reloads, j)
  /\ spinner' = FALSE
  /\ alert' = IF ok THEN "" ELSE LoaderError(r.loader)
  /\ lastOp' = [op |-> IF ok THEN "reloadRenders" ELSE "reloadFails", arg |-> 0,
                prev |-> lastOp.op]

\* The await of page loader j settles, taken as one step: with ok all of its
\* requests resolved, otherwise one of them failed.
reloadSettles(j, ok) ==
  /\ j \in 1..Len(reloads)
  /\ reloadCompletes(j, ok)
  /\ UNCHANGED <<dataVars, currentWeekId, weeksData, periodType, monthsData,
                 currentMonthWeekIds, domVars, loadVars, currentJobFilter, weekLabel>>

\* Faulty variant: every response is rendered as it arrives.
requestSettles_RendersEach(j, ok) ==
  /\ j \in 1..Len(reloads)
  /\ IF ok /\ reloads[j].pending > 1
     THEN /\ reloads' = Insert(RemoveAt(reloads, j),
                               [reloads[j] EXCEPT !.pending = reloads[j].pending - 1])
          /\ alert' = ""
          /\ lastOp' = [op |-> "requestSettles", arg |-> 0, prev |-> lastOp.op]
          /\ shown' = reloads[j].week_id
          /\ UNCHANGED <<spinner>>
     ELSE reloadCompletes(j, ok)
  /\ UNCHANGED <<dataVars, currentWeekId, weeksData, periodType, monthsData,
                 currentMonthWeekIds, domVars, loadVars, currentJobFilter, weekLabel>>

\* The same request by request: one request of page loader j settles.  A
\* response that leaves others outstanding only waits in Promise.all; the last
\* response, or the first failure, ends the loader (responses that come after a
\* failure are dropped).
requestSettles(j, ok) ==
  /\ j \in 1..Len(reloads)
  /\ IF ok /\ reloads[j].pending > 1
     THEN /\ reloads' = Insert(RemoveAt(reloads, j),
                               [reloads[j] EXCEPT !.pending = reloads[j].pending - 1])
          /\ alert' = ""
          /\ lastOp' = [op |-> "requestSettles", arg |-> 0, prev |-> lastOp.op]
          /\ UNCHANGED <<spinner, shown>>
     ELSE reloadCompletes(j, ok)
  /\ UNCHANGED <<dataVars, currentWeekId, weeksData, periodType, monthsData,
                 currentMonthWeekIds, domVars, loadVars, currentJobFilter, weekLabel>>

\* ------------------------------------------------ granularity toggle
\* Faulty variant: the toggle also moves the slider back to the most recent period.
setPeriodType_ResetsSlider(type) ==
  /\ loadPc # "notStarted"
  /\ Len(reloads) < MaxInFlight
  /\ periodType' = type
  /\ IF type = "weekly"
     THEN populateWeekSelector(weeksData)
     ELSE populateMonthSelector(monthsData)
  /\ slider' = [slider EXCEPT !.value = slider.min]
  /\ UNCHANGED <<dataVars, weeksData, monthsData, changeListener,
                 sliderListener, labels, loadVars, currentJobFilter, shown>>
  /\ StartReload(currentWeekId')
  /\ alert' = ""
  /\ lastOp' = [op |-> "setPeriodType", arg |-> IF type = "weekly" THEN 0 ELSE 1,
                prev |-> lastOp.op]

\* setPeriodType(type), from the Weekly / Monthly buttons.
setPeriodType(type) ==
  /\ loadPc # "notStarted"
  /\ Len(reloads) < MaxInFlight
  /\ periodType' = type
  /\ IF type = "weekly"
     THEN populateWeekSelector(weeksData)
     ELSE populateMonthSelector(monthsData)
  /\ UNCHANGED <<dataVars, weeksData, monthsData, changeListener, slider,
                 sliderListener, labels, loadVars, currentJobFilter, shown>>
  /\ StartReload(currentWeekId')
  /\ alert' = ""
  /\ lastOp' = [op |-> "setPeriodType", arg |-> IF type = "weekly" THEN 0 ELSE 1,
                prev |-> lastOp.op]

\* ------------------------------------------------------ the slider
\* Faulty variant: the slider position read from the oldest end of the list.
SliderWeek_Unreversed(wd, idx) == wd[Len(wd) - idx]

\* The period at a slider position: position 0 is the most recent one.
SliderWeek(wd, idx) == wd[idx + 1]

\* Faulty variant: the slider position written from the oldest end of its range.
SetSliderValue_Reversed(sl, v) == [sl EXCEPT !.value = sl.max - v]

\* A range input keeps its value within [min, max].
SetSliderValue(sl, v) ==
  [sl EXCEPT !.value = IF v < sl.min THEN sl.min ELSE IF v > sl.max THEN sl.max ELSE v]

\* Faulty variant: in monthly mode the scrub pins the week but keeps the group.
handleSliderChange_KeepsGroup(idx) ==
  IF idx >= 0 /\ idx < Len(weeksData)
  THEN LET week == SliderWeek(weeksData, idx) IN
       /\ currentWeekId' = week.week_id
       /\ currentMonthWeekIds' = IF periodType = "monthly" THEN currentMonthWeekIds
                                 ELSE <<week.week_id>>
       /\ selIndex' = IndexOfValue(selOptions, ToStr(week.week_id))
       /\ labels' = [labels EXCEPT !.current = week.label]
       /\ StartReload(week.week_id)
  ELSE UNCHANGED <<currentWeekId, currentMonthWeekIds, selIndex, labels, reloads,
                   spinner, weekLabel>>

\* handleSliderChange(e) with e.target.value = idx: what it leaves in
\* currentWeekId, currentMonthWeekIds, the dropdown and the current-label.
handleSliderChange(idx) ==
  IF idx >= 0 /\ idx < Len(weeksData)
  THEN LET week == SliderWeek(weeksData, idx) IN
       /\ currentWeekId' = week.week_id
       /\ currentMonthWeekIds' = <<week.week_id>>
       /\ selIndex' = IndexOfValue(selOptions, ToStr(week.week_id))
       /\ labels' = [labels EXCEPT !.current = week.label]
       /\ StartReload(week.week_id)
  ELSE UNCHANGED <<currentWeekId, currentMonthWeekIds, selIndex, labels, reloads,
                   spinner, weekLabel>>

\* Faulty variant: a scrub also switches the granularity back to weekly.
selectBySlider_ForcesWeekly(i) ==
  /\ sliderListener
  /\ i \in slider.min..slider.max
  /\ Len(reloads) < MaxInFlight
  /\ periodType' = "weekly"
  /\ UNCHANGED <<dataVars, weeksData, monthsData, selOptions,
                 changeListener, sliderListener, loadVars, currentJobFilter, shown>>
  /\ slider' = [slider EXCEPT !.value = i]
  /\ handleSliderChange(i)
  /\ alert' = ""
  /\ lastOp' = [op |-> "selectBySlider", arg |-> i, prev |-> lastOp.op]

\* The user drags the slider to position i; the input event runs the handler.
selectBySlider(i) ==
  /\ sliderListener
  /\ i \in slider.min..slider.max
  /\ Len(reloads) < MaxInFlight
  /\ UNCHANGED <<dataVars, weeksData, periodType, monthsData, selOptions,
                 changeListener, sliderListener, loadVars, currentJobFilter, shown>>
  /\ slider' = [slider EXCEPT !.value = i]
  /\ handleSliderChange(i)
  /\ alert' = ""
  /\ lastOp' = [op |-> "selectBySlider", arg |-> i, prev |-> lastOp.op]

\* Values an event can hand to the handler as parseInt(e.target.value): NaN,
\* a negative number, the last index of the longest list (beyond the end of
\* every shorter one) and the index after it.
SliderInputs == {NaN, -3, MaxWeeks - 1, MaxWeeks}

\* Faulty variant: an index outside the list still clears the group.
handleSliderChangeWith_ClearsGroup(v) ==
  /\ Len(reloads) < MaxInFlight
  /\ UNCHANGED <<dataVars, weeksData, periodType, monthsData, selOptions, slider,
                 changeListener, sliderListener, loadVars, currentJobFilter, shown>>
  /\ IF v >= 0 /\ v < Len(weeksData)
     THEN handleSliderChange(v)
     ELSE /\ currentMonthWeekIds' = <<>>
          /\ UNCHANGED <<currentWeekId, selIndex, labels, reloads, spinner, weekLabel>>
  /\ alert' = ""
  /\ lastOp' = [op |-> "handleSliderChange", arg |-> v, prev |-> lastOp.op]

\* handleSliderChange run on an event made by script, whose target's value
\* parses to v; the slider element itself is not moved.
handleSliderChangeWith(v) ==
  /\ Len(reloads) < MaxInFlight
  /\ UNCHANGED <<dataVars, weeksData, periodType, monthsData, selOptions, slider,
                 changeListener, sliderListener, loadVars, currentJobFilter, shown>>
  /\ handleSliderChange(v)
  /\ alert' = ""
  /\ lastOp' = [op |-> "handleSliderChange", arg |-> v, prev |-> lastOp.op]

\* ------------------------------------------------- the dropdown handler
\* weeksData.findIndex(w => w.week_id === id): 0-based, -1 when absent.
FindIndex(wd, id) ==
  IF \E i \in 1..Len(wd) : wd[i].week_id = id
  THEN (CHOOSE i \in 1..Len(wd) :
          /\ wd[i].week_id = id
          /\ \A j \in 1..(i - 1) : wd[j].week_id # id) - 1
  ELSE -1

ParseIds(pieces) == [i \in 1..Len(pieces) |-> ParseInt(pieces[i])]

\* Faulty variant: in monthly mode the primary week is read before the group is parsed.
PeriodChange_StalePrimary(pt, value, wd, sl, lb) ==
  IF pt = "weekly"
  THEN LET cur == ParseInt(value)
           idx == FindIndex(wd, cur)
       IN [cur |-> cur, ids |-> <<cur>>,
           slider |-> IF idx >= 0 THEN SetSliderValue(sl, idx) ELSE sl,
           labels |-> IF idx >= 0 THEN [lb EXCEPT !.current = wd[idx + 1].label] ELSE lb]
  ELSE [cur |-> IF Len(currentMonthWeekIds) > 0 THEN currentMonthWeekIds[1] ELSE Null,
        ids |-> ParseIds(Split(value)), slider |-> sl, labels |-> lb]

\* Faulty variant: in monthly mode the primary week is the last id of the group.
PeriodChange_PrimaryLast(pt, value, wd, sl, lb) ==
  IF pt = "weekly"
  THEN LET cur == ParseInt(value)
           idx == FindIndex(wd, cur)
       IN [cur |-> cur, ids |-> <<cur>>,
           slider |-> IF idx >= 0 THEN SetSliderValue(sl, idx) ELSE sl,
           labels |-> IF idx >= 0 THEN [lb EXCEPT !.current = wd[idx + 1].label] ELSE lb]
  ELSE LET ids == ParseIds(Split(value))
       IN [cur |-> ids[Len(ids)], ids |-> ids, slider |-> sl, labels |-> lb]

\* handlePeriodChange() reading `value` from the dropdown: the selection it
\* leaves, from the granularity, the period list, the slider and its labels.
PeriodChange(pt, value, wd, sl, lb) ==
  IF pt = "weekly"
  THEN LET cur == ParseInt(value)
           idx == FindIndex(wd, cur)
       IN [cur |-> cur, ids |-> <<cur>>,
           slider |-> IF idx >= 0 THEN SetSliderValue(sl, idx) ELSE sl,
           labels |-> IF idx >= 0 THEN [lb EXCEPT !.current = wd[idx + 1].label] ELSE lb]
  ELSE LET ids == ParseIds(Split(value))
       IN [cur |-> ids[1], ids |-> ids, slider |-> sl, labels |-> lb]

handlePeriodChange(value) ==
  LET r == PeriodChange(periodType, value, weeksData, slider, labels) IN
  /\ currentWeekId' = r.cur
  /\ currentMonthWeekIds' = r.ids
  /\ slider' = r.slider
  /\ labels' = r.labels
  /\ StartReload(r.cur)

\* The user picks option k of the dropdown; the change event runs the handler.
\* (A pick of the option already selected is let through as well: it is the
\* handler called again with the same value.)
selectByDropdown(k) ==
  /\ changeListener
  /\ k \in 1..Len(selOptions)
  /\ Len(reloads) < MaxInFlight
  /\ UNCHANGED <<dataVars, weeksData, periodType, monthsData, selOptions,
                 changeListener, sliderListener, loadVars, currentJobFilter, shown>>
  /\ selIndex' = k
  /\ handlePeriodChange(selOptions[k].value)
  /\ alert' = ""
  /\ lastOp' = [op |-> "selectByDropdown", arg |-> k, prev |-> lastOp.op]

\* A change event that reaches the handler with the dropdown as it stands
\* (dispatched by script, not by a pick): the value may be the empty string.
dispatchChange ==
  /\ changeListener
  /\ Len(reloads) < MaxInFlight
  /\ UNCHANGED <<dataVars, weeksData, periodType, monthsData, selOptions, selIndex,
                 changeListener, sliderListener, loadVars, currentJobFilter, shown>>
  /\ handlePeriodChange(SelectValue(selOptions, selIndex))
  /\ alert' = ""
  /\ lastOp' = [op |-> "dispatchChange", arg |-> selIndex, prev |-> lastOp.op]

\* ------------------------------------------------------ the job filter
\* Two of the three filter buttons; setJobFilter treats every value alike.
JobFilters == {"all", "wip"}

\* Faulty variant: the labor request goes out with the filter as it was.
setJobFilter_SendsOldFilter(filter) ==
  /\ page = "/labor"
  /\ loadPc # "notStarted"
  /\ Len(reloads) < MaxInFlight
  /\ currentJobFilter' = filter
  /\ UNCHANGED <<dataVars, currentWeekId, weeksData, periodType, monthsData,
                 currentMonthWeekIds, domVars, loadVars, shown>>
  /\ reloads' = Insert(reloads, [loader |-> "loadLaborData", week_id |-> currentWeekId,
                                  status |-> currentJobFilter,
                                  pending |-> FetchCount("loadLaborData")])
  /\ spinner' = TRUE
  /\ weekLabel' = WeekLabel("loadLaborData", periodType, monthsData, selOptions,
                            selIndex, weeksData, currentWeekId, weekLabel)
  /\ alert' = ""
  /\ lastOp' = [op |-> "setJobFilter", arg |-> StatusRank(filter), prev |-> lastOp.op]

\* setJobFilter(filter), from the filter buttons of the labor page: the filter
\* is stored (the buttons' active class follows it) and the labor loader runs.
setJobFilter(filter) ==
  /\ page = "/labor"
  /\ loadPc # "notStarted"
  /\ Len(reloads) < MaxInFlight
  /\ currentJobFilter' = filter
  /\ UNCHANGED <<dataVars, currentWeekId, weeksData, periodType, monthsData,
                 currentMonthWeekIds, domVars, loadVars, shown>>
  /\ StartLoader("loadLaborData", currentWeekId)
  /\ alert' = ""
  /\ lastOp' = [op |-> "setJobFilter", arg |-> StatusRank(filter), prev |-> lastOp.op]

\* ------------------------------------------------------ the page init
\* initDashboard / initRevenue / initMargin / initLabor up to the await in
\* loadWeeks: both list requests are out.
initPage ==
  /\ loadPc = "notStarted"
  /\ loadPc' = "fetching"
  /\ fetchWeeks' = "pending"
  /\ fetchMonths' = "pending"
  /\ alert' = ""
  /\ lastOp' = [op |-> "initPage", arg |-> 0, prev |-> lastOp.op]
  /\ UNCHANGED <<dataVars, currentWeekId, weeksData, periodType, monthsData,
                 currentMonthWeekIds, domVars, currentJobFilter, reloads, spinner,
                 weekLabel, shown, initAlerts, initLoaderRan>>

\* Faulty variant: Promise.allSettled, which never rejects.
PromiseAll_Settled(fw, fm) ==
  IF fw \in {"ok", "fail"} /\ fm \in {"ok", "fail"} THEN "fulfilled" ELSE "pending"

\* Promise.all over the two list requests.
PromiseAll(fw, fm) ==
  IF fw = "fail" \/ fm = "fail" THEN "rejected"
  ELSE IF fw = "ok" /\ fm = "ok" THEN "fulfilled"
  ELSE "pending"

\* Faulty variant: the slider counts the periods from 1.
initTimelineSlider_RangeFromOne(wd) ==
  IF Len(wd) = 0
  THEN UNCHANGED <<slider, labels, sliderListener>>
  ELSE /\ slider' = [min |-> 1, max |-> Len(wd), value |-> 1]
       /\ labels' = [start |-> wd[1].label, end |-> wd[Len(wd)].label,
                     current |-> wd[1].label]
       /\ sliderListener' = TRUE

\* Faulty variant: the slider's range runs one past the last period.
initTimelineSlider_MaxLen(wd) ==
  IF Len(wd) = 0
  THEN UNCHANGED <<slider, labels, sliderListener>>
  ELSE /\ slider' = [min |-> 0, max |-> Len(wd), value |-> 0]
       /\ labels' = [start |-> wd[1].label, end |-> wd[Len(wd)].label,
                     current |-> wd[1].label]
       /\ sliderListener' = TRUE

\* initTimelineSlider with updateSliderLabels, for the period list wd.
initTimelineSlider(wd) ==
  IF Len(wd) = 0
  THEN UNCHANGED <<slider, labels, sliderListener>>
  ELSE /\ slider' = [min |-> 0, max |-> Len(wd) - 1, value |-> 0]
       /\ labels' = [start |-> wd[1].label, end |-> wd[Len(wd)].label,
                     current |-> wd[1].label]
       /\ sliderListener' = TRUE

\* loadWeeks after its await, then the page init going on to its page loader.
loadWeeksResume ==
  /\ weeksData' = apiWeeks
  /\ monthsData' = apiMonths
  /\ IF periodType = "weekly"
     THEN populateWeekSelector(apiWeeks)
     ELSE populateMonthSelector(apiMonths)
  /\ changeListener' = TRUE
  /\ initTimelineSlider(apiWeeks)
  /\ StartReload(currentWeekId')
  /\ initLoaderRan' = TRUE
  /\ loadPc' = "loaded"
  /\ alert' = ""
  /\ UNCHANGED <<initAlerts>>

\* The catch of the page init: one alert, nothing else.
initCatch ==
  /\ initAlerts' = initAlerts + 1
  /\ alert' = InitError(page)
  /\ loadPc' = "failed"
  /\ UNCHANGED <<currentWeekId, weeksData, monthsData, currentMonthWeekIds, domVars,
                 reloads, spinner, weekLabel, initLoaderRan>>

\* One of the two list requests settles.
fetchSettles(which, ok) ==
  /\ IF which = "weeks" THEN fetchWeeks = "pending" ELSE fetchMonths = "pending"
  /\ UNCHANGED <<dataVars, periodType, currentJobFilter, shown>>
  /\ fetchWeeks' = IF which = "weeks" THEN (IF ok THEN "ok" ELSE "fail") ELSE fetchWeeks
  /\ fetchMonths' = IF which = "months" THEN (IF ok THEN "ok" ELSE "fail") ELSE fetchMonths
  /\ IF loadPc = "fetching" /\ PromiseAll(fetchWeeks', fetchMonths') = "fulfilled"
     THEN Len(reloads) < MaxInFlight /\ loadWeeksResume
     ELSE IF loadPc = "fetching" /\ PromiseAll(fetchWeeks', fetchMonths') = "rejected"
     THEN initCatch
     ELSE /\ alert' = ""
          /\ UNCHANGED <<currentWeekId, weeksData, monthsData, currentMonthWeekIds,
                         domVars, reloads, spinner, weekLabel, initAlerts,
                         initLoaderRan, loadPc>>
  /\ lastOp' = [op |-> "fetchSettles", arg |-> 0, prev |-> lastOp.op]

\* ------------------------------------------------- the specifications
Next ==
  \/ initPage
  \/ \E which \in {"weeks", "months"}, ok \in BOOLEAN : fetchSettles(which, ok)
  \/ \E type \in {"weekly", "monthly"} : setPeriodType(type)
  \/ \E k \in 1..MaxWeeks : selectByDropdown(k)
  \/ \E i \in 0..(MaxWeeks - 1) : selectBySlider(i)
  \/ \E j \in 1..MaxInFlight, ok \in BOOLEAN : reloadSettles(j, ok)

Spec == Init /\ [][Next]_vars

\* The same, with change events that script may dispatch on the dropdown.
NextDispatch == Next \/ dispatchChange
SpecDispatch == Init /\ [][NextDispatch]_vars

\* One page, with events that script may hand to the slider's handler.
InitScrub == Init /\ page = "/revenue"
NextScrub == Next \/ \E v \in SliderInputs : handleSliderChangeWith(v)
SpecScrub == InitScrub /\ [][NextScrub]_vars

\* Every request is answered or fails in the end (the browser gives up on a
\* request that gets no answer), so a page loader in flight does not wait
\* for ever.
\* (Followed with the months at their longest: how the weeks are grouped
\* changes nothing in how a loader ends.)
LongMonths == apiMonths = Months(Len(apiWeeks), MaxMonthLen)
InitFair == Init /\ LongMonths
SpecFair ==
  /\ InitFair
  /\ [][Next]_vars
  /\ WF_vars(\E j \in 1..MaxInFlight, ok \in BOOLEAN : reloadSettles(j, ok))

\* The labor page, where the filter buttons call setJobFilter (with the
\* months at their longest).
InitLabor == Init /\ page = "/labor" /\ LongMonths
NextLabor == Next \/ \E filter \in JobFilters : setJobFilter(filter)
SpecLabor == InitLabor /\ [][NextLabor]_vars

\* The pages whose loader sends several requests, in weekly mode, with every
\* request of a page loader settling on its own.
InitRequests == Init /\ page \in {"/", "/margin"}
NextRequests ==
  \/ initPage
  \/ \E which \in {"weeks", "months"}, ok \in BOOLEAN : fetchSettles(which, ok)
  \/ \E k \in 1..MaxWeeks : selectByDropdown(k)
  \/ \E i \in 0..(MaxWeeks - 1) : selectBySlider(i)
  \/ \E j \in 1..MaxInFlight, ok \in BOOLEAN : requestSettles(j, ok)
SpecRequests == InitRequests /\ [][NextRequests]_vars

\* ------------------------------------------------------ the session
\* localStorage.getItem answers null for an absent key; !!null and !!"" are
\* false, and `Bearer ${null}` reads "Bearer null".
HasItem(st, key) == key \in DOMAIN st
isAuthenticated(st) == HasItem(st, TOKEN_KEY) /\ st[TOKEN_KEY] # ""
Bearer(st) == IF HasItem(st, TOKEN_KEY) THEN st[TOKEN_KEY] ELSE "null"

\* getUser(): the parsed user info, as a sequence of one, or <<>> for null.
getUser(st) ==
  IF HasItem(st, USER_KEY) /\ st[USER_KEY] # <<>>
  THEN <<JSONParse(st[USER_KEY])>>
  ELSE <<>>

\* Faulty variant: logout forgets the stored user.
Logout_KeepsUser(st) == RemoveItem(st, TOKEN_KEY)

\* logout(): what it leaves in localStorage (it then sets location to /login).
Logout(st) == RemoveItem(RemoveItem(st, TOKEN_KEY), USER_KEY)

HttpStatuses == {200, 401, 500}
Ok(status) == status >= 200 /\ status <= 299

\* api.get(url) / api.post(url, data) up to the await of fetch: the request
\* goes out with the token stored at that moment.
apiRequest(method) ==
  /\ Len(apiCalls) < MaxCalls
  /\ apiCalls' = Append(apiCalls, [kind |-> method, bearer |-> Bearer(storage),
                                   then |-> "caller"])
  /\ apiLast' = [op |-> method, status |-> 0, bearer |-> Bearer(storage), error |-> ""]
  /\ UNCHANGED <<page, storage, dashVars, uploadVars>>

\* api.login(email, password) up to the await of its POST.
login ==
  /\ Len(apiCalls) < MaxCalls
  /\ apiCalls' = Append(apiCalls, [kind |-> "login", bearer |-> "", then |-> "login"])
  /\ apiLast' = [op |-> "login", status |-> 0, bearer |-> "", error |-> ""]
  /\ UNCHANGED <<page, storage, dashVars, uploadVars>>

\* The user signs out: api.logout().
logout ==
  /\ storage' = Logout(storage)
  /\ page' = "/login"
  /\ apiLast' = [op |-> "logout", status |-> 0, bearer |-> Bearer(storage), error |-> ""]
  /\ UNCHANGED <<apiCalls, dashVars, uploadVars>>

\* The response to request j arrives with `status`.  The POST of login: not
\* ok throws 'Login failed', ok stores the token and goes on to
\* get('/api/auth/me').  A get or post: 401 logs out and throws 'Session
\* expired', any other status that is not ok throws 'API error', ok returns
\* the body, which login stores as the user.
apiResponds(j, status) ==
  /\ j \in 1..Len(apiCalls)
  /\ LET c == apiCalls[j] IN
     IF c.kind = "login"
     THEN IF Ok(status)
          THEN /\ storage' = SetItem(storage, TOKEN_KEY, Jwt)
               /\ apiCalls' = Append(RemoveAt(apiCalls, j),
                                     [kind |-> "get", bearer |-> Jwt, then |-> "login"])
               /\ apiLast' = [op |-> "loginResponse", status |-> status, bearer |-> "",
                              error |-> ""]
               /\ UNCHANGED page
          ELSE /\ apiCalls' = RemoveAt(apiCalls, j)
               /\ apiLast' = [op |-> "loginResponse", status |-> status, bearer |-> "",
                              error |-> "Login failed"]
               /\ UNCHANGED <<page, storage>>
     ELSE /\ apiCalls' = RemoveAt(apiCalls, j)
          /\ IF status = 401
             THEN /\ storage' = Logout(storage)
                  /\ page' = "/login"
                  /\ apiLast' = [op |-> "response", status |-> status,
                                 bearer |-> c.bearer, error |-> "Session expired"]
             ELSE IF ~Ok(status)
             THEN /\ apiLast' = [op |-> "response", status |-> status,
                                 bearer |-> c.bearer, error |-> "API error"]
                  /\ UNCHANGED <<page, storage>>
             ELSE /\ storage' = IF c.then = "login"
                                 THEN SetItem(storage, USER_KEY, JSONStringify(UserInfo))
                                 ELSE storage
                  /\ apiLast' = [op |-> "response", status |-> status,
                                 bearer |-> c.bearer, error |-> ""]
                  /\ UNCHANGED page
  /\ UNCHANGED <<dashVars, uploadVars>>

\* A page with nothing of the dashboard started; signed in or not.
InitAuth ==
  /\ page \in {"/", "/login"}
  /\ apiWeeks = <<>>
  /\ apiMonths = <<>>
  /\ DashboardIdle
  /\ storage \in {NoItems, SignedIn}
  /\ apiCalls = <<>>
  /\ apiLast = [op |-> "none", status |-> 0, bearer |-> "", error |-> ""]
  /\ UploadIdle

NextAuth ==
  \/ \E method \in {"get", "post"} : apiRequest(method)
  \/ login
  \/ logout
  \/ \E j \in 1..MaxCalls, status \in HttpStatuses : apiResponds(j, status)

SpecAuth == InitAuth /\ [][NextAuth]_vars

\* ------------------------------------------------ the upload handlers
Upper == <<"A", "B", "C", "D", "E", "F", "G", "H", "I", "J", "K", "L", "M",
           "N", "O", "P", "Q", "R", "S", "T", "U", "V", "W", "X", "Y", "Z">>
Lower == <<"a", "b", "c", "d", "e", "f", "g", "h", "i", "j", "k", "l", "m",
           "n", "o", "p", "q", "r", "s", "t", "u", "v", "w", "x", "y", "z">>
LowerChar(c) ==
  IF \E i \in 1..26 : Upper[i] = c THEN Lower[CHOOSE i \in 1..26 : Upper[i] = c] ELSE c

\* String.prototype.toLowerCase().
toLowerCase(text) == [i \in 1..Len(text) |-> LowerChar(text[i])]

\* String.prototype.split(sep) for a separator of one character.
RECURSIVE SplitOnFrom(_, _, _, _)
SplitOnFrom(text, sep, i, piece) ==
  IF i > Len(text) THEN <<piece>>
  ELSE IF text[i] = sep THEN <<piece>> \o SplitOnFrom(text, sep, i + 1, <<>>)
  ELSE SplitOnFrom(text, sep, i + 1, Append(piece, text[i]))
SplitOn(text, sep) == SplitOnFrom(text, sep, 1, <<>>)

\* Array.prototype.pop(): the last element.
Pop(a) == a[Len(a)]

\* String.prototype.includes(pat).
Includes(text, pat) ==
  \E k \in 0..(Len(text) - Len(pat)) : SubSeq(text, k + 1, k + Len(pat)) = pat

validTypes == {<<".", "c", "s", "v">>, <<".", "x", "l", "s", "x">>, <<".", "x", "l", "s">>}

\* "." + file.name.split(".").pop().toLowerCase()
Extension(name) == <<".">> \o toLowerCase(Pop(SplitOn(name, ".")))

\* The names of the files a user drops or picks.
NameCsv == <<"a", ".", "c", "s", "v">>
NameXls == <<"b", ".", "X", "L", "S">>
NameBare == <<"c", "s", "v">>
NameTxt == <<"c", ".", "t", "x", "t">>
NameCsvTxt == <<"d", ".", "c", "s", "v", ".", "t", "x", "t">>
FileNames == {NameCsv, NameXls, NameBare, NameTxt, NameCsvTxt}

\* The values of the file_type radio buttons.
FileTypes == {<<"r", "e", "v">>, <<"l", "a", "b">>}

\* textContent of a li of the recent list: the file name, white space, the badge.
TextContent(li) == li.text \o <<"\n", " ", "\n", " ">> \o li.badge

KeepLast == 5

\* addToRecentUploads(filename, fileType, success): the list it leaves.
addToRecent(list, filename, fileType, success) ==
  LET kept == IF Len(list) > 0 /\ Includes(TextContent(list[1]), NoRecent)
              THEN Tail(list) ELSE list
      item == [text |-> filename, badge |-> fileType,
               icon |-> IF success THEN "check" ELSE "times"]
      all == <<item>> \o kept
  IN IF Len(all) > KeepLast THEN SubSeq(all, 1, KeepLast) ELSE all

InvalidType == "Invalid file type. Please upload CSV or Excel files."

\* handleFile(file) with file.name = name, from a drop or from the file
\* input.  (#file-size is written next to #file-name and read by nothing.)
handleFile(name) ==
  /\ IF Extension(name) \notin validTypes
     THEN /\ resultBox' = [shown |-> TRUE, success |-> FALSE, message |-> InvalidType]
          /\ UNCHANGED <<selectedFile, fileInfo, uploadBtnDisabled>>
     ELSE /\ selectedFile' = <<name>>
          /\ fileInfo' = [shown |-> TRUE, name |-> name]
          /\ uploadBtnDisabled' = FALSE
          /\ resultBox' = [resultBox EXCEPT !.shown = FALSE]
  /\ upLast' = [op |-> "handleFile", file |-> name, outcome |-> ""]
  /\ UNCHANGED <<page, authVars, dashVars, progressShown, uploads, recent, sent, added>>

\* clearFile(), from the button next to the file name.  (It also empties the
\* file input, which nothing here reads.)
clearFile ==
  /\ selectedFile' = <<>>
  /\ fileInfo' = [fileInfo EXCEPT !.shown = FALSE]
  /\ uploadBtnDisabled' = TRUE
  /\ upLast' = [op |-> "clearFile", file |-> <<>>, outcome |-> ""]
  /\ UNCHANGED <<page, authVars, dashVars, progressShown, resultBox, uploads, recent,
                 sent, added>>

\* uploadFile() up to the await of its fetch, run by a click on the upload
\* button (a disabled button takes no click) or called with nothing selected.
uploadFile(fileType) ==
  /\ ~uploadBtnDisabled \/ selectedFile = <<>>
  /\ sent < MaxSent
  /\ IF selectedFile = <<>>
     THEN /\ upLast' = [op |-> "uploadFile", file |-> <<>>, outcome |-> "returned"]
          /\ UNCHANGED <<uploadBtnDisabled, progressShown, resultBox, uploads, sent>>
     ELSE /\ uploadBtnDisabled' = TRUE
          /\ progressShown' = TRUE
          /\ resultBox' = [resultBox EXCEPT !.shown = FALSE]
          /\ uploads' = Append(uploads, [file |-> selectedFile[1], fileType |-> fileType])
          /\ sent' = sent + 1
          /\ upLast' = [op |-> "uploadFile", file |-> selectedFile[1], outcome |-> "sent"]
  /\ UNCHANGED <<page, authVars, dashVars, selectedFile, fileInfo, recent, added>>

\* How an upload can end: the server took the file (ok, success true), the
\* server answered ok with success false, the server answered with an error
\* status, or the request or the reading of its body failed.
Outcomes == {"accepted", "refused", "httpError", "networkError"}

\* The message of each outcome: the body's message, the body's detail (or
\* 'Upload failed'), the error's message.
MessageOf(outcome) ==
  IF outcome = "accepted" THEN "File processed"
  ELSE IF outcome = "refused" THEN "Missing columns"
  ELSE IF outcome = "httpError" THEN "Upload failed"
  ELSE "Failed to fetch"

\* What reading selectedFile.name throws while selectedFile is null.
NullName == "Cannot read properties of null (reading 'name')"

\* Faulty variant: an upload answered with an error status is listed as well.
uploadSettles_ListsErrors(j, outcome) ==
  /\ j \in 1..Len(uploads)
  /\ LET u == uploads[j]
         ok == outcome \in {"accepted", "refused", "httpError"}
         success == outcome = "accepted"
         threw == ok /\ selectedFile = <<>>
         listed == ok /\ ~threw
         cleared == listed /\ success
         file == IF cleared THEN <<>> ELSE selectedFile
     IN
     /\ uploads' = RemoveAt(uploads, j)
     /\ resultBox' = IF threw
                     THEN [shown |-> TRUE, success |-> FALSE, message |-> NullName]
                     ELSE [shown |-> TRUE, success |-> success,
                           message |-> MessageOf(outcome)]
     /\ recent' = IF listed
                  THEN addToRecent(recent, selectedFile[1], u.fileType, success)
                  ELSE recent
     /\ added' = IF listed
                 THEN <<[text |-> selectedFile[1], badge |-> u.fileType,
                         icon |-> IF success THEN "check" ELSE "times"]>> \o added
                 ELSE added
     /\ selectedFile' = file
     /\ fileInfo' = IF cleared THEN [fileInfo EXCEPT !.shown = FALSE] ELSE fileInfo
     /\ progressShown' = FALSE
     /\ uploadBtnDisabled' = (file = <<>>)
     /\ upLast' = [op |-> "uploadSettles", file |-> u.file, outcome |-> outcome]
  /\ UNCHANGED <<page, authVars, dashVars, sent>>

\* uploadFile() from the answer of its fetch to the end of its finally: the
\* result is shown, the entry is added under selectedFile.name as it reads
\* now (a null selectedFile throws into the catch), a success clears the
\* selection, and the finally hides the progress and sets the button from
\* selectedFile.
uploadSettles(j, outcome) ==
  /\ j \in 1..Len(uploads)
  /\ LET u == uploads[j]
         ok == outcome \in {"accepted", "refused"}
         success == outcome = "accepted"
         threw == ok /\ selectedFile = <<>>
         listed == ok /\ ~threw
         cleared == listed /\ success
         file == IF cleared THEN <<>> ELSE selectedFile
     IN
     /\ uploads' = RemoveAt(uploads, j)
     /\ resultBox' = IF threw
                     THEN [shown |-> TRUE, success |-> FALSE, message |-> NullName]
                     ELSE [shown |-> TRUE, success |-> success,
                           message |-> MessageOf(outcome)]
     /\ recent' = IF listed
                  THEN addToRecent(recent, selectedFile[1], u.fileType, success)
                  ELSE recent
     /\ added' = IF listed
                 THEN <<[text |-> selectedFile[1], badge |-> u.fileType,
                         icon |-> IF success THEN "check" ELSE "times"]>> \o added
                 ELSE added
     /\ selectedFile' = file
     /\ fileInfo' = IF cleared THEN [fileInfo EXCEPT !.shown = FALSE] ELSE fileInfo
     /\ progressShown' = FALSE
     /\ uploadBtnDisabled' = (file = <<>>)
     /\ upLast' = [op |-> "uploadSettles", file |-> u.file, outcome |-> outcome]
  /\ UNCHANGED <<page, authVars, dashVars, sent>>

\* The upload page of a signed-in user.
InitUpload ==
  /\ page = "/upload"
  /\ apiWeeks = <<>>
  /\ apiMonths = <<>>
  /\ DashboardIdle
  /\ AuthIdle
  /\ UploadIdle

NextUpload ==
  \/ \E name \in FileNames : handleFile(name)
  \/ clearFile
  \/ \E fileType \in FileTypes : uploadFile(fileType)
  \/ \E j \in 1..MaxSent, outcome \in Outcomes : uploadSettles(j, outcome)

SpecUpload == InitUpload /\ [][NextUpload]_vars

\* File names that hold the words the placeholder is known by.
NameNoRecent == <<"N", "o", " ", "r", "e", "c", "e", "n", "t", ".", "c", "s", "v">>
RecentNames == {NameCsv, NameNoRecent}

\* addToRecentUploads(filename, fileType, success) on its own.
addToRecentUploads(filename, fileType, success) ==
  /\ Len(added) < MaxAdds
  /\ recent' = addToRecent(recent, filename, fileType, success)
  /\ added' = <<[text |-> filename, badge |-> fileType,
                 icon |-> IF success THEN "check" ELSE "times"]>> \o added
  /\ upLast' = [op |-> "addToRecentUploads", file |-> filename, outcome |-> ""]
  /\ UNCHANGED <<page, authVars, dashVars, selectedFile, uploadBtnDisabled, fileInfo,
                 progressShown, resultBox, uploads, sent>>

NextRecent ==
  \E filename \in RecentNames, fileType \in FileTypes, success \in BOOLEAN :
    addToRecentUploads(filename, fileType, success)

SpecRecent == InitUpload /\ [][NextRecent]_vars

TypeOK ==
  /\ periodType \in {"weekly", "monthly"}
  /\ loadPc \in {"notStarted", "fetching", "loaded", "failed"}
  /\ selIndex \in 0..Len(selOptions)
  /\ Len(reloads) <= MaxInFlight
  /\ initAlerts \in 0..1
  /\ currentJobFilter \in {"all", "wip", "completed"}
  /\ \A j \in 1..Len(reloads) : reloads[j].pending \in 1..FetchCount(reloads[j].loader)
  /\ spinner \in BOOLEAN
  /\ Len(apiCalls) <= MaxCalls
  /\ Len(selectedFile) <= 1
  /\ uploadBtnDisabled \in BOOLEAN
  /\ sent \in 0..MaxSent
  /\ Len(uploads) <= sent
  /\ Len(recent) <= KeepLast

\* ------------------------------------------------------------ claims
Loaded == loadPc = "loaded"
DropdownValue == SelectValue(selOptions, selIndex)
\* The period a slider move or a weekly dropdown pick named (1-based).
PickedWeek(n) == weeksData[n]

\* C1: after selectBySlider(i), in weekly or monthly granularity, the
\* dropdown's selected value is the id of the period at reverse index i.
C1_SliderSetsDropdown ==
  lastOp.op = "selectBySlider" =>
    ParseInt(DropdownValue) = PickedWeek(lastOp.arg + 1).week_id

\* C2: selectBySlider(i) leaves currentWeekId = periods[i].weekId,
\* currentMonthWeekIds = [periods[i].weekId] and the slider's current-label =
\* periods[i].label, whatever the granularity.
C2_SliderSelectsPeriod ==
  lastOp.op = "selectBySlider" =>
    /\ currentWeekId = PickedWeek(lastOp.arg + 1).week_id
    /\ currentMonthWeekIds = <<PickedWeek(lastOp.arg + 1).week_id>>
    /\ labels.current = PickedWeek(lastOp.arg + 1).label
    /\ slider.value = lastOp.arg

\* The slider scrubbed to the oldest of several periods while in monthly mode.
C2_Witness ==
  /\ lastOp.op = "selectBySlider"
  /\ periodType = "monthly"
  /\ Len(weeksData) >= 2
  /\ lastOp.arg = Len(weeksData) - 1
  /\ currentWeekId = weeksData[Len(weeksData)].week_id

\* C3: whenever the period list is loaded and the granularity is weekly, the
\* period at the slider's position is the current week.
C3_SliderSynced ==
  (Loaded /\ periodType = "weekly" /\ Len(weeksData) > 0) =>
    weeksData[slider.value + 1].week_id = currentWeekId

\* currentWeekId is one of currentMonthWeekIds, and is all of it in weekly mode.
SelectionConsistent ==
  /\ \E i \in 1..Len(currentMonthWeekIds) : currentMonthWeekIds[i] = currentWeekId
  /\ periodType = "weekly" => currentMonthWeekIds = <<currentWeekId>>

\* C4 (as claimed): in every reachable state, before the load and with empty
\* lists included, currentWeekId is an element of currentMonthWeekIds, and in
\* weekly mode currentMonthWeekIds = [currentWeekId].
C4_AlwaysConsistent == SelectionConsistent

\* C4 (amended): the same, in every state after a load that returned a
\* non-empty period list and a non-empty month list.
C4_ConsistentAfterLoad ==
  (Loaded /\ Len(weeksData) > 0 /\ Len(monthsData) > 0) => SelectionConsistent

\* Monthly mode, a month of several weeks selected after a load.
C4_Witness ==
  /\ Loaded
  /\ periodType = "monthly"
  /\ Len(currentMonthWeekIds) >= 2
  /\ lastOp.op = "setPeriodType"
  /\ lastOp.prev = "selectBySlider"

\* The value names a period: in weekly mode the id of a known period, in
\* monthly mode a list whose every element parses.
ValidValue(pt, v, wd) ==
  IF pt = "weekly"
  THEN FindIndex(wd, ParseInt(v)) >= 0
  ELSE \A i \in 1..Len(Split(v)) : ParseInt(Split(v)[i]) # NaN

\* C5: a change event whose dropdown value does not name a period leaves
\* currentWeekId, currentMonthWeekIds and the slider as they were.
C5_InvalidValueLeavesSelection ==
  [][(/\ lastOp'.op \in {"selectByDropdown", "dispatchChange"}
      /\ ~ValidValue(periodType, DropdownValue', weeksData))
     => UNCHANGED <<currentWeekId, currentMonthWeekIds, slider, labels>>]_vars

\* C6: in monthly mode, picking the option of a month leaves
\* currentMonthWeekIds = that month's week ids, in order, and currentWeekId =
\* the first of them: join(',') and split(',')/parseInt round-trip.
C6_MonthRoundTrip ==
  (lastOp.op = "selectByDropdown" /\ periodType = "monthly") =>
    /\ currentMonthWeekIds = monthsData[lastOp.arg].week_ids
    /\ currentWeekId = monthsData[lastOp.arg].week_ids[1]

\* A month of several weeks picked right after the switch to monthly mode.
C6_Witness ==
  /\ lastOp.op = "selectByDropdown"
  /\ lastOp.prev = "setPeriodType"
  /\ periodType = "monthly"
  /\ Len(monthsData[lastOp.arg].week_ids) >= 2
  /\ currentMonthWeekIds = monthsData[lastOp.arg].week_ids

\* C7: setPeriodType(mode) sets the granularity, rebuilds the dropdown from the
\* periods (weekly) or the months (monthly) and selects its first entry: the
\* first month's week ids with its first week as primary, or the first period.
C7_GranularityDefault ==
  lastOp.op = "setPeriodType" =>
    /\ periodType = (IF lastOp.arg = 0 THEN "weekly" ELSE "monthly")
    /\ lastOp.arg = 1 =>
         /\ Len(selOptions) = Len(monthsData)
         /\ \A i \in 1..Len(monthsData) : selOptions[i].text = monthsData[i].label
         /\ Len(monthsData) > 0 =>
              /\ selIndex = 1
              /\ currentMonthWeekIds = monthsData[1].week_ids
              /\ currentWeekId = monthsData[1].week_ids[1]
    /\ lastOp.arg = 0 =>
         /\ Len(selOptions) = Len(weeksData)
         /\ \A i \in 1..Len(weeksData) : selOptions[i].text = weeksData[i].label
         /\ Len(weeksData) > 0 =>
              /\ selIndex = 1
              /\ currentWeekId = weeksData[1].week_id
              /\ currentMonthWeekIds = <<weeksData[1].week_id>>

\* The switch to monthly mode after the slider had been scrubbed away from the
\* most recent period, the first month holding several weeks.
C7_Witness ==
  /\ lastOp.op = "setPeriodType"
  /\ lastOp.arg = 1
  /\ lastOp.prev = "selectBySlider"
  /\ slider.value > 0
  /\ Len(monthsData) > 0
  /\ Len(monthsData[1].week_ids) >= 2

\* C8: in weekly mode, picking the option of a period leaves currentWeekId =
\* its id, currentMonthWeekIds = [its id], the slider at its reverse index and
\* the current-label at its label.
C8_WeeklyDropdown ==
  (lastOp.op = "selectByDropdown" /\ periodType = "weekly") =>
    /\ currentWeekId = PickedWeek(lastOp.arg).week_id
    /\ currentMonthWeekIds = <<PickedWeek(lastOp.arg).week_id>>
    /\ slider.value = lastOp.arg - 1
    /\ labels.current = PickedWeek(lastOp.arg).label

\* The oldest of several periods picked in weekly mode.
C8_Witness ==
  /\ lastOp.op = "selectByDropdown"
  /\ periodType = "weekly"
  /\ Len(weeksData) >= 2
  /\ lastOp.arg = Len(weeksData)
  /\ slider.value = slider.max

\* C9: selectByDropdown is idempotent. Run again on the state it left, with
\* the same dropdown value, the handler leaves that state; and a second pick
\* of the same option right after the first changes nothing of the selection.
C9_DropdownIdempotent ==
  /\ [](lastOp.op = "selectByDropdown" =>
          LET r == PeriodChange(periodType, DropdownValue, weeksData, slider, labels)
          IN /\ r.cur = currentWeekId
             /\ r.ids = currentMonthWeekIds
             /\ r.slider = slider
             /\ r.labels = labels)
  /\ [][(/\ lastOp.op = "selectByDropdown"
         /\ lastOp'.op = "selectByDropdown"
         /\ lastOp'.arg = lastOp.arg)
        => UNCHANGED <<periodType, currentWeekId, currentMonthWeekIds, slider, labels,
                       selOptions, selIndex>>]_vars

\* A pick right after another pick, of an option that is not the default.
C9_Witness ==
  /\ lastOp.op = "selectByDropdown"
  /\ lastOp.prev = "selectByDropdown"
  /\ lastOp.arg >= 2
  /\ selIndex = lastOp.arg

\* C10: a period-list load in which either list request failed leaves weeksData,
\* monthsData, currentWeekId, currentMonthWeekIds and the slider as they were
\* before it, goes on to no page loader and alerts exactly once.
C10_FailedLoad ==
  /\ (fetchWeeks = "fail" \/ fetchMonths = "fail") => loadPc = "failed"
  /\ loadPc = "failed" =>
       /\ weeksData = <<>>
       /\ monthsData = <<>>
       /\ currentWeekId = Null
       /\ currentMonthWeekIds = <<>>
       /\ slider = [min |-> 0, max |-> 0, value |-> 0]
       /\ labels = [start |-> NoLabel, end |-> NoLabel, current |-> NoLabel]
       /\ ~sliderListener
       /\ ~changeListener
       /\ ~initLoaderRan
       /\ initAlerts = 1

\* The month-list request failed after the week-list request had succeeded.
C10_Witness ==
  /\ loadPc = "failed"
  /\ fetchWeeks = "ok"
  /\ fetchMonths = "fail"
  /\ Len(apiWeeks) > 0
  /\ initAlerts = 1

\* C11: a page reload whose request fails alerts exactly once (the loader's
\* own message), ends with the spinner hidden and the content visible, and
\* leaves periodType, currentWeekId and currentMonthWeekIds as the triggering
\* interaction set them; and a spinner that is shown is always hidden again
\* in the end (so at every moment there is a later one with the spinner hidden).
C11_ReloadFailure ==
  /\ [][lastOp'.op = "reloadFails" =>
          /\ alert' \in {"Failed to load data", "Failed to load revenue data",
                         "Failed to load margin data", "Failed to load labor data"}
          /\ ~spinner'
          /\ Len(reloads') = Len(reloads) - 1
          /\ UNCHANGED <<periodType, currentWeekId, currentMonthWeekIds, shown>>]_vars
  /\ [][lastOp'.op = "reloadRenders" => (alert' = "" /\ ~spinner')]_vars
  /\ []<>(~spinner)

\* The reload of a monthly dropdown pick has failed: the pick stands.
C11_Witness ==
  /\ lastOp.op = "reloadFails"
  /\ lastOp.prev = "selectByDropdown"
  /\ periodType = "monthly"
  /\ Len(currentMonthWeekIds) >= 2
  /\ currentWeekId = currentMonthWeekIds[1]
  /\ alert # ""
  /\ ~spinner

\* The reloads started by the last step (those in flight now and not before).
Started(before, after) ==
  {j \in 1..Len(after) : RemoveAt(after, j) = before}

\* C12: every setPeriodType, selectByDropdown and selectBySlider starts
\* exactly one page loader, the one of the current path (/revenue: revenue,
\* /margin: margin, /labor: labor, anything else: overview), and its requests
\* carry the currentWeekId the handler has just set.
C12_OneLoaderByPath ==
  [][lastOp'.op \in {"setPeriodType", "selectByDropdown", "selectBySlider"} =>
       /\ Len(reloads') = Len(reloads) + 1
       /\ \E j \in Started(reloads, reloads') :
            /\ reloads'[j].week_id = currentWeekId'
            /\ reloads'[j].loader =
                 (IF page = "/revenue" THEN "loadRevenueData"
                  ELSE IF page = "/margin" THEN "loadMarginData"
                  ELSE IF page = "/labor" THEN "loadLaborData"
                  ELSE "loadDashboardData")]_vars

\* On the labor page a slider move has started the labor loader for the week
\* it picked while an earlier reload was still in flight.
C12_Witness ==
  /\ page = "/labor"
  /\ lastOp.op = "selectBySlider"
  /\ Len(reloads) = 2
  /\ \E j \in 1..2 : /\ reloads[j].loader = "loadLaborData"
                      /\ reloads[j].week_id = currentWeekId
                      /\ reloads[j].week_id = weeksData[lastOp.arg + 1].week_id
  /\ lastOp.arg > 0

\* C13: after a load of a non-empty period list, currentMonthWeekIds has
\* length 1 in weekly granularity and, in monthly granularity, the length of
\* the month selected in the dropdown.
C13_GroupLength ==
  (Loaded /\ Len(weeksData) > 0) =>
    /\ periodType = "weekly" => Len(currentMonthWeekIds) = 1
    /\ periodType = "monthly" =>
         /\ selIndex > 0
         /\ Len(currentMonthWeekIds) = Len(monthsData[selIndex].week_ids)

\* C13, amended: the same, except that in monthly granularity a slider scrub
\* leaves the single week at the slider position as the group (the dropdown
\* is then on no month, unless a one-week month has that very value).
C13_GroupLengthOrPinned ==
  (Loaded /\ Len(weeksData) > 0) =>
    /\ periodType = "weekly" => Len(currentMonthWeekIds) = 1
    /\ periodType = "monthly" =>
         \/ /\ selIndex > 0
            /\ currentMonthWeekIds = monthsData[selIndex].week_ids
         \/ /\ selIndex = 0
            /\ currentMonthWeekIds = <<weeksData[slider.value + 1].week_id>>

\* Monthly granularity, a month of several weeks picked, then a scrub.
C13_Witness ==
  /\ Loaded
  /\ periodType = "monthly"
  /\ lastOp.op = "selectBySlider"
  /\ lastOp.prev = "selectByDropdown"
  /\ selIndex = 0
  /\ Len(currentMonthWeekIds) = 1
  /\ \E m \in 1..Len(monthsData) : Len(monthsData[m].week_ids) >= 2

\* C14: periodType changes only in a setPeriodType step: selectByDropdown,
\* selectBySlider (a scrub in monthly mode included), setJobFilter, the load
\* and the end of every page reload leave it as it was.
C14_GranularityOnlyBySetPeriodType ==
  /\ [][periodType' # periodType => lastOp'.op = "setPeriodType"]_vars
  /\ [][lastOp'.op \in {"selectByDropdown", "selectBySlider", "setJobFilter",
                         "reloadRenders", "reloadFails", "fetchSettles"} =>
          periodType' = periodType]_vars

\* On the labor page in monthly mode: the filter was set, then the slider
\* scrubbed; the granularity is still monthly with a single week pinned.
C14_Witness ==
  /\ page = "/labor"
  /\ periodType = "monthly"
  /\ lastOp.op = "selectBySlider"
  /\ lastOp.prev = "setJobFilter"
  /\ currentJobFilter = "wip"
  /\ currentMonthWeekIds = <<currentWeekId>>
  /\ \E m \in 1..Len(monthsData) : Len(monthsData[m].week_ids) >= 2

\* The state a successful load of a non-empty period list has just left.
JustLoaded == lastOp.op = "fetchSettles" /\ Loaded /\ Len(weeksData) > 0

\* C15: a successful load of a non-empty period list leaves granularity
\* weekly, currentWeekId = periods[0].weekId, currentMonthWeekIds =
\* [periods[0].weekId] and the slider at index 0 of [0, periodCount - 1], even
\* if the granularity was toggled while the list requests were in flight.
C15_InitialSelection ==
  JustLoaded =>
    /\ periodType = "weekly"
    /\ currentWeekId = weeksData[1].week_id
    /\ currentMonthWeekIds = <<weeksData[1].week_id>>
    /\ slider = [min |-> 0, max |-> Len(weeksData) - 1, value |-> 0]

\* C15, amended: the load leaves the default selection of the granularity in
\* effect when it completes: the most recent period alone in weekly, the
\* first month's weeks (primary week: its first) in monthly; the slider is at
\* index 0 of [0, periodCount - 1] either way.
C15_InitialSelectionOfGranularity ==
  JustLoaded =>
    /\ slider = [min |-> 0, max |-> Len(weeksData) - 1, value |-> 0]
    /\ labels = [start |-> weeksData[1].label,
                 end |-> weeksData[Len(weeksData)].label,
                 current |-> weeksData[1].label]
    /\ selIndex = 1
    /\ periodType = "weekly" =>
         /\ currentWeekId = weeksData[1].week_id
         /\ currentMonthWeekIds = <<weeksData[1].week_id>>
    /\ periodType = "monthly" =>
         /\ currentWeekId = monthsData[1].week_ids[1]
         /\ currentMonthWeekIds = monthsData[1].week_ids

\* The load has completed after the user had switched to monthly: the first
\* month, of several weeks, is selected.
C15_Witness ==
  /\ JustLoaded
  /\ periodType = "monthly"
  /\ Len(currentMonthWeekIds) >= 2
  /\ currentMonthWeekIds = monthsData[1].week_ids
  /\ slider.max = Len(weeksData) - 1
  /\ slider.max >= 1

\* C16: setPeriodType leaves the slider's index, range and labels as they
\* were, for both granularities, and so does selectByDropdown in monthly mode.
C16_ToggleLeavesSlider ==
  /\ [][lastOp'.op = "setPeriodType" =>
          UNCHANGED <<slider, labels, sliderListener>>]_vars
  /\ [][(lastOp'.op = "selectByDropdown" /\ periodType = "monthly") =>
          UNCHANGED <<slider, labels, sliderListener>>]_vars

\* The slider stood away from index 0 through a switch to monthly and a pick
\* of a month.
C16_Witness ==
  /\ periodType = "monthly"
  /\ lastOp.op = "selectByDropdown"
  /\ lastOp.prev = "setPeriodType"
  /\ slider.value > 0
  /\ labels.current = weeksData[slider.value + 1].label
  /\ currentMonthWeekIds = monthsData[selIndex].week_ids

\* C17: a load that returned an empty period list leaves the slider's range,
\* value and labels untouched, installs no slider listener, and goes on to no
\* page loader (no request is sent with currentWeekId unset).
C17_EmptyListNoReload ==
  (lastOp.op = "fetchSettles" /\ Loaded /\ Len(weeksData) = 0) =>
    /\ slider = [min |-> 0, max |-> 0, value |-> 0]
    /\ labels = [start |-> NoLabel, end |-> NoLabel, current |-> NoLabel]
    /\ ~sliderListener
    /\ ~initLoaderRan
    /\ \A j \in 1..Len(reloads) : reloads[j].week_id # Null

\* C18: a page loader that sends several requests (overview: four, margin:
\* two) renders only when the last of them has resolved; a response that
\* leaves others outstanding writes nothing; a failure ends the loader with
\* one alert and nothing rendered, whatever had resolved before.
C18_AllOrNothing ==
  /\ [][lastOp'.op = "requestSettles" =>
          /\ UNCHANGED <<shown, spinner>>
          /\ alert' = ""
          /\ Len(reloads') = Len(reloads)]_vars
  /\ [][lastOp'.op = "reloadRenders" =>
          \E j \in 1..Len(reloads) :
            /\ reloads[j].pending = 1
            /\ reloads' = RemoveAt(reloads, j)
            /\ shown' = reloads[j].week_id
            /\ alert' = ""]_vars
  /\ [][lastOp'.op = "reloadFails" =>
          /\ shown' = shown
          /\ alert' = (IF page = "/margin" THEN "Failed to load margin data"
                       ELSE "Failed to load data")
          /\ Len(reloads') = Len(reloads) - 1]_vars

\* The overview's only loader in flight failed after another of its requests
\* had resolved: one alert, still nothing shown.
C18_Witness ==
  /\ page = "/"
  /\ lastOp.op = "reloadFails"
  /\ lastOp.prev = "requestSettles"
  /\ reloads = <<>>
  /\ shown = Null
  /\ currentWeekId # Null
  /\ alert = "Failed to load data"

\* C19: a page loader, once started, is never cancelled: every step that
\* starts one keeps those in flight, and one leaves only by settling; each
\* settles on its own, and one that renders writes the data of the week it
\* asked for, whatever currentWeekId is by then.  (The witness is the
\* interleaving in which the stale week is what stays on display.)
C19_NoCancellation ==
  /\ [][Len(reloads') > Len(reloads) => Started(reloads, reloads') # {}]_vars
  /\ [][Len(reloads') = Len(reloads) => reloads' = reloads]_vars
  /\ [][Len(reloads') < Len(reloads) =>
          /\ lastOp'.op \in {"reloadRenders", "reloadFails"}
          /\ \E j \in 1..Len(reloads) : reloads' = RemoveAt(reloads, j)]_vars
  /\ [][lastOp'.op = "reloadRenders" =>
          \E j \in 1..Len(reloads) :
            /\ reloads' = RemoveAt(reloads, j)
            /\ shown' = reloads[j].week_id]_vars

\* Week B was selected while the reload for week A was in flight; B's reload
\* rendered, then A's: every reload has settled, the page shows A, and
\* currentWeekId is B.
C19_Witness ==
  /\ Loaded
  /\ reloads = <<>>
  /\ lastOp.op = "reloadRenders"
  /\ lastOp.prev = "reloadRenders"
  /\ \E a, b \in 1..Len(weeksData) :
       /\ a # b
       /\ shown = weeksData[a].week_id
       /\ currentWeekId = weeksData[b].week_id
  /\ ~spinner

\* C20: whenever a page loader still has a request in flight the spinner is
\* visible (and the content hidden), overlapping reloads included.
C20_SpinnerWhileFetching == Len(reloads) > 0 => spinner

\* C21: in every reachable state the slider's value is an index of the
\* period list, an integer of 0 .. periodCount - 1.
C21_SliderIndexInRange == slider.value \in 0..(Len(weeksData) - 1)

\* C21, amended: from a load of a non-empty period list on, the slider's
\* range is 0 .. periodCount - 1 and its value lies in it.
C21_SliderIndexInRangeAfterLoad ==
  (Loaded /\ Len(weeksData) > 0) =>
    /\ slider.min = 0
    /\ slider.max = Len(weeksData) - 1
    /\ slider.value \in 0..(Len(weeksData) - 1)

\* A weekly pick of the oldest of several periods has moved the slider to
\* the last index.
C21_Witness ==
  /\ Loaded
  /\ Len(weeksData) >= 3
  /\ lastOp.op = "selectByDropdown"
  /\ periodType = "weekly"
  /\ slider.value = Len(weeksData) - 1
  /\ currentWeekId = weeksData[Len(weeksData)].week_id

\* The handler has just run on an index that is not one of the list.
ScrubbedOutside(op) == op.op = "handleSliderChange" /\ ~(op.arg \in 0..(Len(weeksData) - 1))

\* C23: the slider handler run on an index outside the list (negative, at or
\* beyond the period count, NaN) changes nothing: primary week, group,
\* dropdown, current-label and slider stay, and no reload starts.
C23_OutOfRangeNoOp ==
  [][ScrubbedOutside(lastOp') =>
       UNCHANGED <<currentWeekId, currentMonthWeekIds, periodType, selOptions, selIndex,
                   labels, slider, reloads, spinner, weekLabel, shown>>]_vars

\* The handler ran on an index outside a loaded, non-empty list while a
\* selection stood.
C23_Witness ==
  /\ Loaded
  /\ Len(weeksData) > 0
  /\ ScrubbedOutside(lastOp)
  /\ lastOp.arg \in {NaN, -3, Len(weeksData)}
  /\ currentWeekId # Null

\* The first week id of the option the dropdown shows.
FirstIdOf(value) == ParseInt(Split(value)[1])

C25_JobFilterOnly ==
  /\ [][lastOp'.op = "setJobFilter" =>
          /\ StatusRank(currentJobFilter') = lastOp'.arg
          /\ UNCHANGED <<periodType, currentWeekId, currentMonthWeekIds, slider,
                         selOptions, selIndex>>
          /\ Len(reloads') = Len(reloads) + 1
          /\ \E j \in Started(reloads, reloads') :
               /\ reloads'[j].loader = "loadLaborData"
               /\ reloads'[j].week_id = currentWeekId
               /\ reloads'[j].status = currentJobFilter']_vars
  /\ [][lastOp'.op # "setJobFilter" =>
          /\ currentJobFilter' = currentJobFilter
          /\ \A j \in Started(reloads, reloads') :
               reloads'[j].status = currentJobFilter]_vars

\* With the filter set to wip, a later pick in the dropdown has sent its
\* labor request with status wip.
C25_Witness ==
  /\ lastOp.op = "selectByDropdown"
  /\ lastOp.prev = "setJobFilter"
  /\ currentJobFilter = "wip"
  /\ \E j \in 1..Len(reloads) :
       reloads[j].status = "wip" /\ reloads[j].week_id = currentWeekId

\* The text after the last '.' of a name, lowercased, is csv, xlsx or xls.
HasValidExtension(name) ==
  \E i \in 1..Len(name) :
    /\ name[i] = "."
    /\ \A k \in (i + 1)..Len(name) : name[k] # "."
    /\ toLowerCase(SubSeq(name, i + 1, Len(name))) \in
         {<<"c", "s", "v">>, <<"x", "l", "s", "x">>, <<"x", "l", "s">>}

\* C26: handleFile accepts a file iff the text after the last '.' of its
\* name, lowercased, is csv, xlsx or xls; an accepted file becomes
\* selectedFile, enables the button and hides the result; a rejected one
\* leaves selectedFile and the button alone and shows 'Invalid file type'.
C26_AcceptsByExtension ==
  [][upLast'.op = "handleFile" =>
       IF HasValidExtension(upLast'.file)
       THEN /\ selectedFile' = <<upLast'.file>>
            /\ ~uploadBtnDisabled'
            /\ ~resultBox'.shown
       ELSE /\ UNCHANGED <<selectedFile, uploadBtnDisabled>>
            /\ resultBox' = [shown |-> TRUE, success |-> FALSE, message |-> InvalidType]]_vars

\* C27: while no upload is in flight the upload button is enabled iff a file
\* is selected; while an upload is in flight the button is disabled.
C27_ButtonFollowsSelection ==
  IF uploads = <<>>
  THEN uploadBtnDisabled <=> (selectedFile = <<>>)
  ELSE uploadBtnDisabled

\* C28: when an upload settles, the entry it adds to the recent list names
\* the file that was sent, a file the server took is reported as a success,
\* and the selection is cleared only if it is the file that was sent.
C28_OutcomeOfSentFile ==
  [][upLast'.op = "uploadSettles" =>
       /\ added' # added => added'[1].text = upLast'.file
       /\ upLast'.outcome = "accepted" => resultBox'.shown /\ resultBox'.success
       /\ selectedFile' # selectedFile => selectedFile = <<upLast'.file>>]_vars

\* What every settling of an upload does, and what uploadFile does with no
\* file: the parts of C29 that do not depend on the selection.
SettlesAsClaimed ==
  /\ [][upLast'.outcome = "returned" =>
          UNCHANGED <<selectedFile, uploadBtnDisabled, fileInfo, progressShown,
                      resultBox, uploads, recent, added>>]_vars
  /\ [][upLast'.op = "uploadSettles" =>
          /\ ~progressShown'
          /\ upLast'.outcome = "accepted" => selectedFile' = <<>> /\ uploadBtnDisabled'
          /\ upLast'.outcome # "accepted" =>
               /\ resultBox'.shown /\ ~resultBox'.success
               /\ selectedFile' = selectedFile
          /\ added' # added => upLast'.outcome \in {"accepted", "refused"}]_vars

\* C29 (as claimed): uploadFile with no file does nothing; a settled upload
\* hides the progress; success clears the selection and leaves the button
\* disabled; an HTTP error, a network failure or success=false shows an
\* error, keeps the selected file and re-enables the button; only uploads
\* answered with an OK status are listed.
C29_FailureReenables ==
  /\ SettlesAsClaimed
  /\ [][(upLast'.op = "uploadSettles" /\ upLast'.outcome # "accepted") =>
          ~uploadBtnDisabled']_vars

\* C29 (amended): as claimed, except that after a failure the button is
\* enabled iff a file is selected at that moment: re-enabled when the file is
\* still there, left disabled when the selection was cleared meanwhile.
C29_FailureEnablesIfSelected ==
  /\ SettlesAsClaimed
  /\ [][(upLast'.op = "uploadSettles" /\ upLast'.outcome # "accepted") =>
          (uploadBtnDisabled' <=> selectedFile' = <<>>)]_vars

\* An upload failed with its file still selected: error shown, file kept,
\* button enabled again, progress hidden, nothing listed.
C29_Witness ==
  /\ upLast.op = "uploadSettles"
  /\ upLast.outcome \in {"httpError", "networkError"}
  /\ selectedFile = <<upLast.file>>
  /\ ~uploadBtnDisabled
  /\ resultBox.shown /\ ~resultBox.success
  /\ ~progressShown
  /\ added = <<>>

\* C30: the recent list holds the 5 entries added last, newest first, and
\* nothing else; the placeholder is there only until the first addition.
C30_FiveMostRecent ==
  IF added = <<>>
  THEN recent = <<Placeholder>>
  ELSE recent = SubSeq(added, 1, IF Len(added) > KeepLast THEN KeepLast ELSE Len(added))

\* Signed out, on the login page: neither key is stored, isAuthenticated() is
\* false, getUser() is null.
SignedOut(st, path) ==
  /\ ~HasItem(st, TOKEN_KEY)
  /\ ~HasItem(st, USER_KEY)
  /\ ~isAuthenticated(st)
  /\ getUser(st) = <<>>
  /\ path = "/login"

\* C22: logout() removes the stored token and the stored user and redirects
\* to /login; a get or post answered 401 does the same and fails with
\* 'Session expired'; no other answer touches the session or is returned as
\* data with an error.
C22_LogoutClearsSession ==
  /\ [][apiLast'.op = "logout" => SignedOut(storage', page')]_vars
  /\ [][(apiLast'.op = "response" /\ apiLast'.status = 401) =>
          /\ SignedOut(storage', page')
          /\ apiLast'.error = "Session expired"]_vars
  /\ [][(apiLast'.op = "response" /\ apiLast'.error = "") =>
          apiLast'.status = 200]_vars

\* A request sent with the token of a signed-in session was answered 401:
\* the session is gone.
C22_Witness ==
  /\ apiLast.op = "response"
  /\ apiLast.status = 401
  /\ apiLast.bearer = Jwt
  /\ apiLast.error = "Session expired"
  /\ SignedOut(storage, page)

====
